---------------------------- MODULE Spec2Model ----------------------------
(***************************************************************************)
(* Model of the DNS reconciliation and rate-limited bulk execution code of *)
(* godaddy_cli: RateLimiter.acquire and GoDaddyAPIClient (core/api_client), *)
(* _generate_deployment_plan, apply_deployment and rollback_deployment      *)
(* (commands/deploy), the bulk commands (commands/bulk) and ConfigManager   *)
(* (core/config).                                                           *)
(*                                                                         *)
(* The specifications share the variables:                                 *)
(*   SpecRL    concurrent callers of one RateLimiter                        *)
(*   SpecRLFair SpecRL under the scheduling of the event loop               *)
(*   SpecPlan  plan generation and the effect of the plan's wire payloads   *)
(*   SpecBulk  _process_bulk_import: semaphore, one client per task         *)
(*   SpecApply apply_deployment through SyncGoDaddyAPIClient                *)
(*   SpecRequest one bulk call and the answers to its wire calls            *)
(*   SpecRollback rollback_deployment through SyncGoDaddyAPIClient          *)
(*   SpecRestore  rollback_deployment over the GoDaddyAPIClient methods     *)
(*   SpecConfig   the operations of one ConfigManager                       *)
(*   SpecDry      the bulk commands with and without --dry-run              *)
(***************************************************************************)
EXTENDS Integers, Sequences, FiniteSets, TLC

(***************************************************************************)
(* Bounds of the model.                                                    *)
(***************************************************************************)
NumTasks == 3
MaxCalls == 2
MaxTime == 4
MaxN == 2
MaxW == 2
NumDomains == 2
MaxItems == 2
MaxReqItems == 4

\* RateLimiter() of a GoDaddyAPIClient is built with max_requests = 60 and
\* window = 60 (api_client.py:110, 142).  The bulk model scales both down:
\* as with 60, one domain's import has fewer batches than max_requests, and
\* the whole import is sent within one window.
ClientMaxRequests == MaxItems + 1
ClientWindow == 1

Tasks == 1..NumTasks
NoTask == 0

VARIABLES
    \* ---- RateLimiter (api_client.py:107-133) and its callers
    now,        \* time.time(), in ticks
    limN,       \* RateLimiter.max_requests
    limW,       \* RateLimiter.window
    limOf,      \* limOf[t]: the RateLimiter instance task t's client owns
    requests,   \* requests[l]: RateLimiter.requests of instance l
    lockOwner,  \* lockOwner[l]: task whose frame holds RateLimiter._lock
    rlpc,       \* rlpc[t]: where task t is inside acquire()
    rldepth,    \* rldepth[t]: nested acquire() frames of task t
    wake,       \* wake[t]: time at which asyncio.sleep(sleep_time) ends
    calls,      \* calls[t]: acquire() calls task t has started
    admitted    \* history: <<instance, time>> of every acquire() that returned

rlVars == <<now, limN, limW, limOf, requests, lockOwner, rlpc, rldepth,
            wake, calls, admitted>>

\* ---- plan generation (deploy.py:338-402) and the plan's wire payloads
VARIABLES
    server,     \* the domain's records at the registrar, as API dicts, in
                \* listing order
    desired,    \* desired_state: key-ordered dict of DNSRecord, as a sequence
    plan,       \* the plan _generate_deployment_plan returned
    planPc      \* "off" | "start" | "planned" | "applied"

planVars == <<server, desired, plan, planPc>>

\* ---- _process_bulk_import (bulk.py:390-424) over
\* GoDaddyAPIClient.bulk_update_records (api_client.py:265-283)
VARIABLES
    domRecs,         \* domain_records: per domain, its records (TRUE: a record
                     \* the registrar accepts, FALSE: one it rejects)
    batchSize,       \* batch_size
    maxWorkers,      \* max_workers
    continueOnError, \* continue_on_error
    hasCreds,        \* auth_manager.get_credentials(profile) is not None
    permits,         \* semaphore._value
    bpc,             \* bpc[t]: where process_domain of domain t is
    bi,              \* bi[t]: i of `for i in range(0, len(records), batch_size)`
    acc,             \* acc[t]: `results` of bulk_update_records of task t
    results,         \* `results` of _process_bulk_import: results[t] is the
                     \* entry appended for domain t, NoResult before that
    gatherState,     \* "off" | "running" | "returned" | "raised"
    wireLog,         \* history: wireLog[t] lists [time, size] of every wire
                     \* request task t sent
    otherFailure,    \* history: a request holding no rejected record failed
    lateCall         \* history: a wire request was sent when a batch or a
                     \* task had already failed

bulkVars == <<domRecs, batchSize, maxWorkers, continueOnError, hasCreds,
              permits, bpc, bi, acc, results, gatherState, wireLog,
              otherFailure, lateCall>>

\* ---- apply_deployment (deploy.py:106-260)
VARIABLES
    applyPc,     \* where apply_deployment is
    autoApprove, \* --auto-approve
    backupReq,   \* --backup
    snapshot,    \* the records written to the backup file, NoSnapshot before
    delIdx,      \* position in `for change in plan['delete']`
    applyLog,    \* history: [method, name, type] of every wire request sent
    goAhead      \* history: the answer to 'Apply N changes?', "none" before

applyVars == <<applyPc, autoApprove, backupReq, snapshot, delIdx, applyLog,
               goAhead>>

\* ---- one bulk call over _request (api_client.py:165-186, 265-283;
\* simple_api_client.py:91-115, 194-220)
VARIABLES
    reqClient,   \* "async": GoDaddyAPIClient, "simple": APIClient,
                 \* "delete": the delete loop over GoDaddyAPIClient
    reqItems,    \* len(records)
    reqBatch,    \* batch_size
    reqPc,       \* "ready" | "sent" | "done"
    reqI,        \* records handled so far
    answers,     \* history: the server's answer to every wire call, in order
    reqRes,      \* results: success, failed, len(errors)
    sent         \* history: [from, size] of every wire call: the records
                 \* records[from : from + size] it carries

reqVars == <<reqClient, reqItems, reqBatch, reqPc, reqI, answers, reqRes,
             sent>>

\* ---- rollback_deployment (deploy.py:263-335)
VARIABLES
    rbPc,        \* where rollback_deployment is
    rbBound,     \* FALSE: the client is the SyncGoDaddyAPIClient as written
    rbAuto,      \* --auto-approve
    rbBackup,    \* backup_data['records']: the dicts of the backup file
    rbListed,    \* current_records
    rbIdx,       \* position in `for record in current_records`
    rbI,         \* i of bulk_update_records' loop
    rbRes,       \* results of bulk_update_records
    rbWarnings,  \* history: the (name, type) of every 'Failed to delete' line
    rbLog        \* history: [method, name, type, body] of every wire request

rbVars == <<rbPc, rbBound, rbAuto, rbBackup, rbListed, rbIdx, rbI, rbRes,
            rbWarnings, rbLog>>

\* ---- ConfigManager (core/config.py:49-266)
VARIABLES
    profiles,    \* self._profiles: name -> default_ttl of the ProfileConfig
    configFile,  \* the config file: [state, profiles]
    lastOp,      \* history: [op, name, raised] of the last operation
    before       \* history: self._profiles when the last delete_profile began

cfgVars == <<profiles, configFile, lastOp, before>>

\* ---- the bulk commands with --dry-run (bulk.py:31-138, 203-301, 461-576)
VARIABLES
    cmd,         \* "import" | "update" | "delete"
    dryRun,      \* --dry-run
    cmdPc,       \* where the command is
    taskPc,      \* per domain: "pending" | "work" | "done"
    store,       \* per domain: the records the registrar holds
    store0,      \* history: store when the command began
    todo,        \* per domain: domain_records[domain] of the import, or
                 \* `updates` / `records` of the update / delete task
    cmdLog       \* history, per domain: the method of every wire request

dryVars == <<cmd, dryRun, cmdPc, taskPc, store, store0, todo, cmdLog>>

vars == <<rlVars, planVars, bulkVars, applyVars, reqVars, rbVars, cfgVars,
          dryVars>>

nonRLVars == <<planVars, bulkVars, applyVars, reqVars, rbVars, cfgVars,
               dryVars>>
nonPlanVars == <<rlVars, bulkVars, applyVars, reqVars, rbVars, cfgVars,
                 dryVars>>
nonBulkVars == <<planVars, applyVars, reqVars, rbVars, cfgVars, dryVars>>
nonApplyVars == <<rlVars, bulkVars, reqVars, rbVars, cfgVars, dryVars>>
nonReqVars == <<rlVars, planVars, bulkVars, applyVars, rbVars, cfgVars,
                dryVars>>
nonRbVars == <<rlVars, bulkVars, applyVars, reqVars, cfgVars, dryVars>>
nonCfgVars == <<rlVars, planVars, bulkVars, applyVars, reqVars, rbVars,
                dryVars>>
nonDryVars == <<rlVars, planVars, bulkVars, applyVars, reqVars, rbVars,
                cfgVars>>

(***************************************************************************)
(* RateLimiter.acquire                                                     *)
(***************************************************************************)
\* line 122-123: keep the request times with now - req_time < window
Prune(reqs, t, w) == SelectSeq(reqs, LAMBDA r : t - r < w)

\* line 126: len(self.requests) >= self.max_requests
OverLimit_Off(reqs, n) == Len(reqs) > n
OverLimit(reqs, n) == Len(reqs) >= n

\* line 127: sleep_time = self.window - (now - self.requests[0])
SleepTime(reqs, t, w) == w - (t - reqs[1])

\* line 126-129: the caller has to sleep
MustSleep(reqs, t, n, w) ==
    OverLimit(reqs, n) /\ Len(reqs) > 0 /\ SleepTime(reqs, t, w) > 0

\* await limiter.acquire(): the call starts and reaches `async with self._lock`
AcquireCall(t) ==
    /\ rlpc[t] = "idle"
    /\ calls[t] < MaxCalls
    /\ rlpc' = [rlpc EXCEPT ![t] = "lock"]
    /\ rldepth' = [rldepth EXCEPT ![t] = 1]
    /\ calls' = [calls EXCEPT ![t] = @ + 1]
    /\ UNCHANGED <<now, limN, limW, limOf, requests, lockOwner, wake, admitted>>
    /\ UNCHANGED nonRLVars

\* lines 118-133: the lock is granted; prune, then either sleep holding the
\* lock (line 129) or record the request and return (line 133), which leaves
\* every `async with` block of the task
AcquireEnter(t) ==
    LET l == limOf[t]
        kept == Prune(requests[l], now, limW)
    IN  /\ rlpc[t] = "lock"
        /\ lockOwner[l] = NoTask
        /\ IF MustSleep(kept, now, limN, limW)
           THEN /\ requests' = [requests EXCEPT ![l] = kept]
                /\ lockOwner' = [lockOwner EXCEPT ![l] = t]
                /\ rlpc' = [rlpc EXCEPT ![t] = "sleep"]
                /\ wake' = [wake EXCEPT ![t] = now + SleepTime(kept, now, limW)]
                /\ UNCHANGED <<rldepth, admitted>>
           ELSE /\ requests' = [requests EXCEPT ![l] = Append(kept, now)]
                /\ lockOwner' = [lockOwner EXCEPT ![l] = NoTask]
                /\ rlpc' = [rlpc EXCEPT ![t] = "idle"]
                /\ rldepth' = [rldepth EXCEPT ![t] = 0]
                /\ admitted' = Append(admitted, <<l, now>>)
                /\ UNCHANGED wake
        /\ UNCHANGED <<now, limN, limW, limOf, calls>>
        /\ UNCHANGED nonRLVars

\* lines 129-130: the sleep is over; `return await self.acquire()` is called
\* inside the `async with self._lock` block, so the lock stays held by the
\* sleeping frame while the nested call asks for it
AcquireWake(t) ==
    /\ rlpc[t] = "sleep"
    /\ now >= wake[t]
    /\ rlpc' = [rlpc EXCEPT ![t] = "lock"]
    /\ rldepth' = [rldepth EXCEPT ![t] = @ + 1]
    /\ UNCHANGED <<now, limN, limW, limOf, requests, lockOwner, wake, calls,
                   admitted>>
    /\ UNCHANGED nonRLVars

\* time passes
Tick ==
    /\ now < MaxTime
    /\ now' = now + 1
    /\ UNCHANGED <<limN, limW, limOf, requests, lockOwner, rlpc, rldepth,
                   wake, calls, admitted>>
    /\ UNCHANGED nonRLVars

\* the limiter part of a state in which nothing has been requested yet
RLFresh ==
    /\ now = 0
    /\ requests = [l \in Tasks |-> <<>>]
    /\ lockOwner = [l \in Tasks |-> NoTask]
    /\ rlpc = [t \in Tasks |-> "idle"]
    /\ rldepth = [t \in Tasks |-> 0]
    /\ wake = [t \in Tasks |-> 0]
    /\ calls = [t \in Tasks |-> 0]
    /\ admitted = <<>>

\* the bulk part of a state of a run that imports nothing
BulkOff ==
    /\ domRecs = <<>>
    /\ batchSize = 1
    /\ maxWorkers = 1
    /\ continueOnError = FALSE
    /\ hasCreds = TRUE
    /\ permits = 0
    /\ bpc = <<>>
    /\ bi = <<>>
    /\ acc = <<>>
    /\ results = <<>>
    /\ gatherState = "off"
    /\ wireLog = <<>>
    /\ otherFailure = FALSE
    /\ lateCall = FALSE

\* the request part of a state of a run that makes no bulk call of its own
ReqOff ==
    /\ reqClient = "async"
    /\ reqItems = 0
    /\ reqBatch = 1
    /\ reqPc = "off"
    /\ reqI = 0
    /\ answers = <<>>
    /\ reqRes = [success |-> 0, failed |-> 0, errors |-> 0]
    /\ sent = <<>>

\* the apply part of a state of a run that applies nothing
ApplyOff ==
    /\ applyPc = "off"
    /\ autoApprove = FALSE
    /\ backupReq = FALSE
    /\ snapshot = [taken |-> FALSE, records |-> <<>>]
    /\ delIdx = 0
    /\ applyLog = <<>>
    /\ goAhead = "none"

\* the rollback part of a state of a run that rolls nothing back
RbOff ==
    /\ rbPc = "off"
    /\ rbBound = FALSE
    /\ rbAuto = FALSE
    /\ rbBackup = <<>>
    /\ rbListed = <<>>
    /\ rbIdx = 0
    /\ rbI = 0
    /\ rbRes = [success |-> 0, failed |-> 0, errors |-> 0]
    /\ rbWarnings = <<>>
    /\ rbLog = <<>>

\* the configuration part of a state of a run that builds no ConfigManager
CfgOff ==
    /\ profiles = <<>>
    /\ configFile = [state |-> "missing", profiles |-> <<>>]
    /\ lastOp = [op |-> "off", name |-> "", raised |-> FALSE]
    /\ before = <<>>

\* the command part of a state of a run of no bulk command with --dry-run
DryOff ==
    /\ cmd = "import"
    /\ dryRun = FALSE
    /\ cmdPc = "off"
    /\ taskPc = <<>>
    /\ store = <<>>
    /\ store0 = <<>>
    /\ todo = <<>>
    /\ cmdLog = <<>>

\* the plan part of a state of a run that generates no plan
PlanOff ==
    /\ server = <<>>
    /\ desired = <<>>
    /\ plan = [create |-> <<>>, update |-> <<>>, delete |-> <<>>]
    /\ planPc = "off"

\* RateLimiter.__init__ (line 110-114) with max_requests and window drawn
\* from small sets; every task uses the same instance
InitRL ==
    /\ limN \in 1..MaxN
    /\ limW \in 1..MaxW
    /\ limOf = [t \in Tasks |-> 1]
    /\ RLFresh
    /\ PlanOff
    /\ BulkOff
    /\ ApplyOff
    /\ ReqOff
    /\ RbOff
    /\ CfgOff
    /\ DryOff

NextRL ==
    \/ \E t \in Tasks : AcquireCall(t)
    \/ \E t \in Tasks : AcquireEnter(t)
    \/ \E t \in Tasks : AcquireWake(t)
    \/ Tick

SpecRL == InitRL /\ [][NextRL]_vars

\* acquire() calls of instance l that returned at a time in [s, s + w)
ReturnsIn(l, s, w) ==
    Cardinality({i \in DOMAIN admitted :
                    /\ admitted[i][1] = l
                    /\ s <= admitted[i][2]
                    /\ admitted[i][2] < s + w})

\* C1: for one RateLimiter (N, W) and any number of concurrent callers, no
\* more than N acquire() calls return within any window of W ticks
\* [s, s + W).
C1_AtMostNPerWindow ==
    \A s \in 0..MaxTime : ReturnsIn(1, s, limW) <= limN

\* C1 witness: more than N calls have returned over time, N of them fill
\* the current window, and a further concurrent caller is being held back.
C1_Witness ==
    /\ Len(admitted) > limN
    /\ ReturnsIn(1, now - limW + 1, limW) = limN
    /\ \E t \in Tasks : rlpc[t] = "sleep"

\* SpecRL with the scheduling of the event loop: time passes, a coroutine
\* whose sleep is over is resumed (asyncio.sleep), and a coroutine waiting
\* for a lock that is free is given it (asyncio.Lock wakes its waiters)
SpecRLFair ==
    /\ SpecRL
    /\ WF_vars(Tick)
    /\ \A t \in Tasks : WF_vars(AcquireWake(t))
    /\ \A t \in Tasks : WF_vars(AcquireEnter(t))

\* C28: no task waits forever on the limiter (and so none keeps its worker
\* slot forever, and the bulk execution ends): a caller of acquire() that
\* has to sleep until the oldest request leaves the window is eventually
\* admitted and returns.
C28_SleeperIsAdmitted ==
    \A t \in Tasks :
        (rlpc[t] = "sleep" /\ wake[t] <= MaxTime) ~> (rlpc[t] = "idle")

\* the requests of limiter l with a timestamp in the trailing window
InWindow(l) == Prune(requests[l], now, limW)

\* C24: acquire() admits its caller at once whenever fewer than N admitted
\* requests lie within the trailing W seconds: a caller that waits for the
\* limiter's lock while the window holds fewer than N requests is only ever
\* waiting for a lock that is free or whose holder is still asleep.
C24_AdmittedWhenWindowHasRoom ==
    \A t \in Tasks :
        (rlpc[t] = "lock" /\ Len(InWindow(limOf[t])) < limN) =>
            \/ lockOwner[limOf[t]] = NoTask
            \/ rlpc[lockOwner[limOf[t]]] = "sleep"

\* C2: a caller that found N requests in the trailing window and was
\* suspended re-evaluates once the oldest has aged out, and returns: after
\* its sleep it is never left waiting for the limiter's lock while that lock
\* is held by its own suspended frame (which only releases it when the
\* nested call returns).
C2_SuspendedCallerReevaluates ==
    \A t \in Tasks :
        ~(rlpc[t] = "lock" /\ rldepth[t] > 1 /\ lockOwner[limOf[t]] = t)


(***************************************************************************)
(* Record model: DNSRecord, to_api_dict, from_api_dict                     *)
(***************************************************************************)
\* Optional[int] = None (api_client.py:42-44)
None == -1

\* ttl: int = 3600 (api_client.py:41, 77)
DefaultTTL == 3600

MaxRecords == 2

\* DNSRecord(name, type, data, ttl, priority, port, weight)
Rec(n, ty, d, ttl, pr, w, po) ==
    [name |-> n, type |-> ty, data |-> d, ttl |-> ttl, priority |-> pr,
     weight |-> w, port |-> po]

\* The records the inputs are drawn from: the records of the spec's
\* scenarios A and B, and an SRV record with each of its five comparable
\* fields varied in turn.
SrvBase == Rec("_sip", "SRV", "sip1", DefaultTTL, 10, 5, 5060)

RecordPool ==
    { Rec("@", "A", "1.2.3.4", DefaultTTL, None, None, None),
      Rec("www", "CNAME", "@", DefaultTTL, None, None, None),
      Rec("www", "A", "1.1.1.1", DefaultTTL, None, None, None),
      Rec("www", "A", "1.1.1.2", DefaultTTL, None, None, None),
      Rec("api", "A", "2.2.2.2", DefaultTTL, None, None, None),
      SrvBase,
      [SrvBase EXCEPT !.data = "sip2"],
      [SrvBase EXCEPT !.ttl = 600],
      [SrvBase EXCEPT !.priority = 20],
      [SrvBase EXCEPT !.weight = 6],
      [SrvBase EXCEPT !.port = 5061] }

\* f"{r.name}.{r.type}" (deploy.py:176, 182): the dict key; a type holds no
\* dot, so the string determines the pair and the pair stands for it
KeyOf(r) == <<r.name, r.type>>

AllKeys == {KeyOf(r) : r \in RecordPool}

\* d.get(k) of an API dict
Get(d, k) == IF k \in DOMAIN d THEN d[k] ELSE None

\* DNSRecord.to_api_dict (api_client.py:48-68)
ToApiDict(r) ==
    LET base == [name |-> r.name, type |-> r.type, data |-> r.data,
                 ttl |-> r.ttl]
        pr == IF r.priority # None THEN "priority" :> r.priority ELSE <<>>
        we == IF r.weight # None THEN "weight" :> r.weight ELSE <<>>
        po == IF r.port # None THEN "port" :> r.port ELSE <<>>
    IN  IF r.type = "MX" THEN base @@ pr
        ELSE IF r.type = "SRV" THEN base @@ pr @@ we @@ po
        ELSE base

\* DNSRecord.from_api_dict (api_client.py:70-81)
FromApiDict(d) ==
    [name |-> d.name, type |-> d.type, data |-> d.data,
     ttl |-> IF "ttl" \in DOMAIN d THEN d.ttl ELSE DefaultTTL,
     priority |-> Get(d, "priority"),
     weight |-> Get(d, "weight"),
     port |-> Get(d, "port")]

MapSeq(s, F(_)) == [i \in 1..Len(s) |-> F(s[i])]

\* sequences of at most MaxRecords pool records with pairwise distinct keys:
\* the key-ordered content of a dict {key: record}
RECURSIVE StatesOfLen(_)
StatesOfLen(n) ==
    IF n = 0 THEN {<<>>}
    ELSE {Append(s, r) : s \in StatesOfLen(n - 1), r \in RecordPool}

DistinctKeys(s) ==
    \A i, j \in 1..Len(s) : KeyOf(s[i]) = KeyOf(s[j]) => i = j

States == UNION {{s \in StatesOfLen(n) : DistinctKeys(s)} : n \in 0..MaxRecords}

\* key in state
HasKey(state, k) == \E i \in 1..Len(state) : KeyOf(state[i]) = k

\* state[key]
Lookup(state, k) ==
    state[CHOOSE i \in 1..Len(state) : KeyOf(state[i]) = k]

(***************************************************************************)
(* _generate_deployment_plan and _records_differ                           *)
(***************************************************************************)
\* _records_differ (deploy.py:394-402)
RecordsDiffer_NoPort(r1, r2) ==
    \/ r1.data # r2.data
    \/ r1.ttl # r2.ttl
    \/ r1.priority # r2.priority
    \/ r1.weight # r2.weight
RecordsDiffer(r1, r2) ==
    \/ r1.data # r2.data
    \/ r1.ttl # r2.ttl
    \/ r1.priority # r2.priority
    \/ r1.weight # r2.weight
    \/ r1.port # r2.port

\* the record dicts a plan entry carries (deploy.py:355-361, 362-368, 374-380)
PlanRecord(r) ==
    [name |-> r.name, type |-> r.type, data |-> r.data, ttl |-> r.ttl,
     priority |-> r.priority]

\* deploy.py:352-369
UpdateEntry(cur, des) ==
    [name |-> des.name, type |-> des.type, old_record |-> PlanRecord(cur),
     new_record |-> PlanRecord(des)]

\* deploy.py:371-381
CreateEntry(des) ==
    [name |-> des.name, type |-> des.type, record |-> PlanRecord(des)]

\* deploy.py:386-389
DeleteEntry(cur) == [name |-> cur.name, type |-> cur.type]

\* deploy.py:348-369: the desired records whose key is in current and that
\* differ from the current record, in desired's order
PlanUpdate(cur, des) ==
    MapSeq(SelectSeq(des, LAMBDA d : HasKey(cur, KeyOf(d))
                                      /\ RecordsDiffer(Lookup(cur, KeyOf(d)), d)),
           LAMBDA d : UpdateEntry(Lookup(cur, KeyOf(d)), d))

\* deploy.py:348-349, 370-381
PlanCreate(cur, des) ==
    MapSeq(SelectSeq(des, LAMBDA d : ~HasKey(cur, KeyOf(d))), CreateEntry)

\* deploy.py:384-389
PlanDelete_All(cur, des) == MapSeq(cur, DeleteEntry)
PlanDelete(cur, des) ==
    MapSeq(SelectSeq(cur, LAMBDA c : ~HasKey(des, KeyOf(c))), DeleteEntry)

\* _generate_deployment_plan (deploy.py:338-391)
GeneratePlan(cur, des) ==
    [create |-> PlanCreate(cur, des),
     update |-> PlanUpdate(cur, des),
     delete |-> PlanDelete(cur, des)]

\* len(plan['create']) + len(plan['update']) + len(plan['delete'])
\* (deploy.py:187)
TotalChanges(p) == Len(p.create) + Len(p.update) + Len(p.delete)

\* [DNSRecord.from_api_dict(record) for record in response]
\* (api_client.py:218-219), then {f"{r.name}.{r.type}": r for r in ...}
\* (deploy.py:175-176)
CurrentState(srv) == MapSeq(srv, FromApiDict)

\* deploy.py:222-230: the records apply submits for the creates and updates
UpdateRecords(p) ==
    MapSeq(p.create, LAMBDA c : FromApiDict(c.record))
    \o MapSeq(p.update, LAMBDA u : FromApiDict(u.new_record))

(***************************************************************************)
(* The registrar's record store (Transport Adapter): one record per        *)
(* identity key, a new record replaces the old one under the same key.     *)
(***************************************************************************)
DictKey(d) == <<d.name, d.type>>

\* DELETE /domains/{domain}/records/{type}/{name} accepted
ServerDelete(srv, ty, n) == SelectSeq(srv, LAMBDA d : DictKey(d) # <<n, ty>>)

\* one record of an accepted PATCH /domains/{domain}/records
ServerPut(srv, d) ==
    IF \E i \in 1..Len(srv) : DictKey(srv[i]) = DictKey(d)
    THEN [i \in 1..Len(srv) |-> IF DictKey(srv[i]) = DictKey(d) THEN d ELSE srv[i]]
    ELSE Append(srv, d)

\* an accepted PATCH /domains/{domain}/records with body ds
RECURSIVE ServerPatch(_, _)
ServerPatch(srv, ds) ==
    IF ds = <<>> THEN srv
    ELSE ServerPatch(ServerPut(srv, Head(ds)), Tail(ds))

\* every delete of the plan accepted (deploy.py:211-213 with
\* api_client.py:246-251)
RECURSIVE ServerDeleteAll(_, _)
ServerDeleteAll(srv, dels) ==
    IF dels = <<>> THEN srv
    ELSE ServerDeleteAll(ServerDelete(srv, Head(dels).type, Head(dels).name),
                         Tail(dels))

\* records_data = [record.to_api_dict() for record in batch]
\* (api_client.py:275)
RecordsData(recs) == MapSeq(recs, ToApiDict)

(***************************************************************************)
(* SpecPlan: a plan is generated from the listed records and the desired   *)
(* state, and every wire call that applying it makes is accepted.          *)
(***************************************************************************)
\* deploy.py:174-184
PlanGenerate ==
    /\ planPc = "start"
    /\ plan' = GeneratePlan(CurrentState(server), desired)
    /\ planPc' = "planned"
    /\ UNCHANGED <<server, desired>>
    /\ UNCHANGED nonPlanVars

\* deploy.py:210-234 with client.delete_dns_record and
\* client.bulk_update_records taken as the methods of GoDaddyAPIClient
\* (api_client.py:246-253, 265-283) and every request accepted: the deletes
\* first, then the create and update records as PATCH bodies
PlanApplyAccepted ==
    /\ planPc = "planned"
    /\ server' = ServerPatch(ServerDeleteAll(server, plan.delete),
                             RecordsData(UpdateRecords(plan)))
    /\ planPc' = "applied"
    /\ UNCHANGED <<desired, plan>>
    /\ UNCHANGED nonPlanVars

\* the limiter part of a state of a run that makes no request
RLOff ==
    /\ limN = 1
    /\ limW = 1
    /\ limOf = [t \in Tasks |-> t]
    /\ RLFresh

InitPlan ==
    /\ server \in {RecordsData(s) : s \in States}
    /\ desired \in States
    /\ plan = [create |-> <<>>, update |-> <<>>, delete |-> <<>>]
    /\ planPc = "start"
    /\ RLOff
    /\ BulkOff
    /\ ApplyOff
    /\ ReqOff
    /\ RbOff
    /\ CfgOff
    /\ DryOff

NextPlan ==
    \/ PlanGenerate
    \/ PlanApplyAccepted

SpecPlan == InitPlan /\ [][NextPlan]_vars

\* entries of a plan list with identity key k
EntriesFor(list, k) ==
    Cardinality({i \in 1..Len(list) : <<list[i].name, list[i].type>> = k})

\* C3: generatePlan emits exactly one create for each key in desired but not
\* in current, one update for each key in both whose data, ttl, priority,
\* weight or port differ, one delete for each key in current but not in
\* desired, and nothing for a key in both whose five fields are equal.
C3_PlanExact ==
    planPc = "planned" =>
        LET cur == CurrentState(server)
        IN  \A k \in AllKeys :
              LET inC == HasKey(cur, k)
                  inD == HasKey(desired, k)
                  c == Lookup(cur, k)
                  d == Lookup(desired, k)
                  differ == inC /\ inD /\
                            (\/ c.data # d.data
                             \/ c.ttl # d.ttl
                             \/ c.priority # d.priority
                             \/ c.weight # d.weight
                             \/ c.port # d.port)
              IN  /\ EntriesFor(plan.create, k) = IF inD /\ ~inC THEN 1 ELSE 0
                  /\ EntriesFor(plan.update, k) = IF differ THEN 1 ELSE 0
                  /\ EntriesFor(plan.delete, k) = IF inC /\ ~inD THEN 1 ELSE 0

\* C3 witness: Scenario B, current = {(www,A): 1.1.1.1, (api,A): 2.2.2.2},
\* desired = {(www,A): 1.1.1.2}, planned as 1 update (www) and 1 delete (api).
C3_Witness ==
    /\ planPc = "planned"
    /\ CurrentState(server) =
         << Rec("www", "A", "1.1.1.1", DefaultTTL, None, None, None),
            Rec("api", "A", "2.2.2.2", DefaultTTL, None, None, None) >>
    /\ desired = << Rec("www", "A", "1.1.1.2", DefaultTTL, None, None, None) >>
    /\ Len(plan.create) = 0
    /\ Len(plan.update) = 1 /\ plan.update[1].name = "www"
    /\ Len(plan.delete) = 1 /\ plan.delete[1].name = "api"

\* the identity keys of the plan's entries, list after list
PlanKeys(p) ==
    MapSeq(p.create \o p.update \o p.delete, LAMBDA e : <<e.name, e.type>>)

\* C4: no identity key (name, type) appears in more than one of the plan's
\* create, update and delete lists, nor twice in the same list.
C4_PlanKeysDisjoint ==
    planPc = "planned" =>
        \A i, j \in 1..Len(PlanKeys(plan)) :
            PlanKeys(plan)[i] = PlanKeys(plan)[j] => i = j

\* C4 witness: a plan with a create, an update and a delete.
C4_Witness ==
    /\ planPc = "planned"
    /\ Len(plan.create) > 0
    /\ Len(plan.update) > 0
    /\ Len(plan.delete) > 0

Orderings(s) ==
    {[i \in 1..Len(s) |-> s[p[i]]] : p \in Permutations(1..Len(s))}

\* C11: generatePlan is independent of listing order: whatever order the
\* records of the current and of the desired map were listed or inserted in,
\* the create, update and delete lists are identical.
C11_PlanOrderIndependent ==
    planPc = "planned" =>
        \A c \in Orderings(CurrentState(server)), d \in Orderings(desired) :
            GeneratePlan(c, d) = plan

\* r1 and r2 agree on the five comparable fields
SameFields(r1, r2) ==
    /\ r1.data = r2.data
    /\ r1.ttl = r2.ttl
    /\ r1.priority = r2.priority
    /\ r1.weight = r2.weight
    /\ r1.port = r2.port

\* C12: the record apply rebuilds from a create entry or from an update
\* entry of the plan (deploy.py:225, 229) equals the desired record of that
\* key in data, ttl, priority, weight and port.
C12_EntryCarriesDesiredRecord ==
    planPc = "planned" =>
        /\ \A i \in DOMAIN plan.create :
              SameFields(FromApiDict(plan.create[i].record),
                         Lookup(desired, <<plan.create[i].name,
                                           plan.create[i].type>>))
        /\ \A i \in DOMAIN plan.update :
              SameFields(FromApiDict(plan.update[i].new_record),
                         Lookup(desired, <<plan.update[i].name,
                                           plan.update[i].type>>))

(***************************************************************************)
(* SpecBulk: _process_bulk_import.  One process_domain task per domain,    *)
(* gated by asyncio.Semaphore(max_workers); each task builds its own       *)
(* GoDaddyAPIClient (bulk.py:405), hence its own RateLimiter               *)
(* (api_client.py:142), and runs bulk_update_records.                      *)
(***************************************************************************)
Domains == 1..NumDomains

Min(a, b) == IF a < b THEN a ELSE b

\* results = {'success': 0, 'failed': 0, 'errors': []} (api_client.py:268);
\* errors is kept as its length
ZeroResult == [success |-> 0, failed |-> 0, errors |-> 0]

\* no entry of `results` for the domain yet
NoResult == [success |-> 0, failed |-> 0, errors |-> 0, domain |-> 0]

\* batch = records[i:i + batch_size] (api_client.py:272)
BatchOf(recs, i, bs) == SubSeq(recs, i + 1, Min(i + bs, Len(recs)))

\* range(0, len(records), batch_size) still yields i (api_client.py:271)
InRange(i, n, bs) == IF bs > 0 THEN i < n ELSE FALSE

\* async with semaphore: a slot can be taken (bulk.py:403)
SlotFree_Always(p) == TRUE
SlotFree(p) == p > 0

\* leaving `async with semaphore` (bulk.py:403), normally or by an exception
Release_Never(p) == p
Release(p) == p + 1

\* the states in which a task is inside `async with semaphore`
Holding == {"inflight", "limiter"}

\* bulk.py:407-409: bulk_update_records returned r; the task ends
TaskReturn(t, r, p) ==
    /\ results' = [results EXCEPT ![t] =
                        [domain |-> t, success |-> r.success,
                         failed |-> r.failed, errors |-> r.errors]]
    /\ bpc' = [bpc EXCEPT ![t] = "done"]
    /\ permits' = Release(p)
    /\ UNCHANGED <<bi, acc, wireLog, lateCall>>
    /\ UNCHANGED <<requests, lockOwner, rlpc, rldepth, wake>>

\* bulk.py:410-419: an exception reached process_domain; the task ends, by
\* re-raising unless continue_on_error
TaskExcept(t, p) ==
    /\ results' = [results EXCEPT ![t] =
                        [domain |-> t, success |-> 0,
                         failed |-> Len(domRecs[t]), errors |-> 1]]
    /\ bpc' = [bpc EXCEPT ![t] = IF continueOnError THEN "done" ELSE "raised"]
    /\ permits' = Release(p)
    /\ UNCHANGED <<bi, acc, wireLog, lateCall>>
    /\ UNCHANGED <<requests, lockOwner, rlpc, rldepth, wake>>

\* a batch or a task has failed by now: task t's own results a count a failed
\* batch (api_client.py:280), or another task's do, or another task has
\* recorded a failure (bulk.py:411-416)
FailureRecorded(t, a) ==
    \/ a.failed > 0
    \/ \E u \in Domains \ {t} :
          \/ acc[u].failed > 0
          \/ results[u].failed > 0
          \/ bpc[u] = "raised"

\* api_client.py:271-277 and 165-176 from the top of the loop at index i with
\* results a: the loop ends and the task returns, or the next batch's
\* _request calls acquire() on the task's own limiter, which either admits
\* the request (it is sent) or sleeps holding the limiter's lock
NextBatch(t, i, a, p) ==
    LET kept == Prune(requests[t], now, limW)
    IN  IF ~InRange(i, Len(domRecs[t]), batchSize)
        THEN TaskReturn(t, a, p)
        ELSE /\ bi' = [bi EXCEPT ![t] = i]
             /\ acc' = [acc EXCEPT ![t] = a]
             /\ permits' = p
             /\ UNCHANGED results
             /\ IF MustSleep(kept, now, limN, limW)
                THEN /\ requests' = [requests EXCEPT ![t] = kept]
                     /\ lockOwner' = [lockOwner EXCEPT ![t] = t]
                     /\ rlpc' = [rlpc EXCEPT ![t] = "sleep"]
                     /\ rldepth' = [rldepth EXCEPT ![t] = 1]
                     /\ wake' = [wake EXCEPT ![t] =
                                    now + SleepTime(kept, now, limW)]
                     /\ bpc' = [bpc EXCEPT ![t] = "limiter"]
                     /\ UNCHANGED <<wireLog, lateCall>>
                ELSE /\ requests' = [requests EXCEPT ![t] = Append(kept, now)]
                     /\ wireLog' = [wireLog EXCEPT ![t] = Append(@,
                            [time |-> now,
                             size |-> Len(BatchOf(domRecs[t], i, batchSize))])]
                     /\ bpc' = [bpc EXCEPT ![t] = "inflight"]
                     /\ lateCall' = (lateCall \/ FailureRecorded(t, a))
                     /\ UNCHANGED <<lockOwner, rlpc, rldepth, wake>>

\* bulk.py:402-406: the task takes a slot and builds its client, which raises
\* without credentials (api_client.py:145-146); bulk_update_records starts,
\* and range() raises ValueError for batch_size = 0 (api_client.py:271)
TaskStart(t) ==
    /\ gatherState = "running"
    /\ bpc[t] = "pending"
    /\ SlotFree(permits)
    /\ IF ~hasCreds \/ batchSize = 0
       THEN TaskExcept(t, permits - 1)
       ELSE NextBatch(t, 0, ZeroResult, permits - 1)
    /\ UNCHANGED <<domRecs, batchSize, maxWorkers, continueOnError, hasCreds,
                   gatherState, otherFailure>>
    /\ UNCHANGED <<now, limN, limW, limOf, calls, admitted>>
    /\ UNCHANGED nonBulkVars

\* api_client.py:174-186 and 278-281: the answer to the request in flight.
\* "ok": status < 400; "apierror": status >= 400 or aiohttp.ClientError;
\* "exc": any other exception (asyncio.TimeoutError of the session's timeout).
\* A batch holding a rejected record is answered with an API error.
WireAnswer(t, o) ==
    LET batch == BatchOf(domRecs[t], bi[t], batchSize)
        clean == \A j \in 1..Len(batch) : batch[j]
        n == Len(batch)
    IN  /\ bpc[t] = "inflight"
        /\ o \in (IF clean THEN {"ok", "apierror", "exc"} ELSE {"apierror"})
        /\ otherFailure' = (otherFailure \/ (clean /\ o # "ok"))
        /\ IF o = "ok"
           THEN NextBatch(t, bi[t] + batchSize,
                          [acc[t] EXCEPT !.success = @ + n], permits)
           ELSE IF o = "apierror"
           THEN NextBatch(t, bi[t] + batchSize,
                          [acc[t] EXCEPT !.failed = @ + n, !.errors = @ + 1],
                          permits)
           ELSE TaskExcept(t, permits)
        /\ UNCHANGED <<domRecs, batchSize, maxWorkers, continueOnError,
                       hasCreds, gatherState>>
        /\ UNCHANGED <<now, limN, limW, limOf, calls, admitted>>
        /\ UNCHANGED nonBulkVars

\* bulk.py:422 with return_exceptions = False: the first exception of a task
\* is raised by gather, and _process_bulk_import raises it
GatherRaise ==
    /\ gatherState = "running"
    /\ \E t \in Domains : bpc[t] = "raised"
    /\ gatherState' = "raised"
    /\ UNCHANGED <<domRecs, batchSize, maxWorkers, continueOnError, hasCreds,
                   permits, bpc, bi, acc, results, wireLog, otherFailure,
                   lateCall>>
    /\ UNCHANGED <<rlVars, nonBulkVars>>

\* bulk.py:422-424: every task has ended; _process_bulk_import returns results
GatherReturn ==
    /\ gatherState = "running"
    /\ \A t \in Domains : bpc[t] = "done"
    /\ gatherState' = "returned"
    /\ UNCHANGED <<domRecs, batchSize, maxWorkers, continueOnError, hasCreds,
                   permits, bpc, bi, acc, results, wireLog, otherFailure,
                   lateCall>>
    /\ UNCHANGED <<rlVars, nonBulkVars>>

\* bulk.py:125: asyncio.run() cancels the tasks still pending when
\* _process_bulk_import has raised; CancelledError is no Exception, so the
\* task leaves `async with semaphore` without recording a result
TaskCancel(t) ==
    /\ gatherState = "raised"
    /\ bpc[t] \in Holding \cup {"pending"}
    /\ bpc' = [bpc EXCEPT ![t] = "cancelled"]
    /\ permits' = IF bpc[t] \in Holding THEN Release(permits) ELSE permits
    /\ rlpc' = [rlpc EXCEPT ![t] = "idle"]
    /\ rldepth' = [rldepth EXCEPT ![t] = 0]
    /\ lockOwner' = [lockOwner EXCEPT ![t] = NoTask]
    /\ UNCHANGED <<domRecs, batchSize, maxWorkers, continueOnError, hasCreds,
                   bi, acc, results, gatherState, wireLog, otherFailure,
                   lateCall>>
    /\ UNCHANGED <<now, limN, limW, limOf, requests, wake, calls, admitted>>
    /\ UNCHANGED nonBulkVars

\* bulk.py:125: the caller interrupts the run (Ctrl-C): asyncio.run cancels
\* every task that has not ended, the ones awaiting the answer to a wire
\* call included.  CancelledError is no Exception: bulk.py:410 does not
\* catch it, the task leaves `async with semaphore` without recording a
\* result, and no task starts afterwards
CallerCancel ==
    LET live == {t \in Domains : bpc[t] \in Holding \cup {"pending"}}
        holders == {t \in Domains : bpc[t] \in Holding}
    IN  /\ gatherState = "running"
        /\ gatherState' = "interrupted"
        /\ bpc' = [t \in Domains |-> IF t \in live THEN "cancelled" ELSE bpc[t]]
        /\ permits' = permits + Cardinality(holders)
        /\ rlpc' = [t \in Tasks |-> IF t \in live THEN "idle" ELSE rlpc[t]]
        /\ rldepth' = [t \in Tasks |-> IF t \in live THEN 0 ELSE rldepth[t]]
        /\ lockOwner' = [t \in Tasks |-> IF t \in live THEN NoTask
                                         ELSE lockOwner[t]]
        /\ UNCHANGED <<domRecs, batchSize, maxWorkers, continueOnError,
                       hasCreds, bi, acc, results, wireLog, otherFailure,
                       lateCall>>
        /\ UNCHANGED <<now, limN, limW, limOf, requests, wake, calls, admitted>>
        /\ UNCHANGED nonBulkVars

\* sequences of at most MaxItems records, at most one of them rejected
ItemLists ==
    UNION {{[j \in 1..n |-> j # bad] : bad \in 0..n} : n \in 0..MaxItems}

\* a number that tells the lists of ItemLists apart
ListCode(l) ==
    Len(l) * (MaxItems + 1) + Cardinality({j \in 1..Len(l) : \A i \in j..Len(l) : l[i]})

\* the tasks differ by their domain only, so the domains are taken in one
\* order of their record lists
Ordered(recs) ==
    \A t \in 1..(Len(recs) - 1) : ListCode(recs[t]) <= ListCode(recs[t + 1])

\* --batch-size is any integer (bulk.py:37)
BatchSizes == {-1} \cup (0..MaxItems)

InitBulk ==
    /\ domRecs \in {recs \in [Domains -> ItemLists] : Ordered(recs)}
    /\ batchSize \in BatchSizes
    /\ maxWorkers \in 1..NumDomains
    /\ continueOnError \in BOOLEAN
    /\ hasCreds \in BOOLEAN
    /\ permits = maxWorkers
    /\ bpc = [t \in Domains |-> "pending"]
    /\ bi = [t \in Domains |-> 0]
    /\ acc = [t \in Domains |-> ZeroResult]
    /\ results = [t \in Domains |-> NoResult]
    /\ gatherState = "running"
    /\ wireLog = [t \in Domains |-> <<>>]
    /\ otherFailure = FALSE
    /\ lateCall = FALSE
    /\ limN = ClientMaxRequests
    /\ limW = ClientWindow
    /\ limOf = [t \in Tasks |-> t]
    /\ RLFresh
    /\ PlanOff
    /\ ApplyOff
    /\ ReqOff
    /\ RbOff
    /\ CfgOff
    /\ DryOff

NextBulk ==
    \/ \E t \in Domains : TaskStart(t)
    \/ \E t \in Domains, o \in {"ok", "apierror", "exc"} : WireAnswer(t, o)
    \/ \E t \in Domains : TaskCancel(t)
    \/ GatherRaise
    \/ GatherReturn
    \/ CallerCancel

SpecBulk == InitBulk /\ [][NextBulk]_vars

RECURSIVE SumSeq(_)
SumSeq(s) == IF s = <<>> THEN 0 ELSE Head(s) + SumSeq(Tail(s))

SumOver(s, F(_)) == SumSeq(MapSeq(s, F))

Succeeded == SumOver(results, LAMBDA r : r.success)
Failed == SumOver(results, LAMBDA r : r.failed)
Errors == SumOver(results, LAMBDA r : r.errors)
Scheduled == SumOver(domRecs, Len)
Rejected ==
    SumOver(domRecs, LAMBDA recs : Cardinality({j \in 1..Len(recs) : ~recs[j]}))

\* C6: whenever a bulk execution returns its result, succeeded + failed
\* equals the number of records that were scheduled, for every input list
\* and every batch size the caller can supply.
C6_CountsAddUp ==
    gatherState = "returned" => Succeeded + Failed = Scheduled

\* C7: when exactly one record of a bulk execution is rejected and nothing
\* else fails, that record alone is counted as failed, with one error entry,
\* and every other record is counted as succeeded, whatever the batch size.
C7_OnlyRejectedItemFails ==
    (/\ gatherState = "returned"
     /\ batchSize >= 1
     /\ hasCreds
     /\ ~otherFailure
     /\ Rejected = 1)
    => (Failed = 1 /\ Errors = 1 /\ Succeeded = Scheduled - 1)

\* wire requests of the whole process sent at a time in [s, s + w)
RequestsIn(s, w) ==
    SumOver(wireLog, LAMBDA log :
        Cardinality({i \in DOMAIN log : s <= log[i].time /\ log[i].time < s + w}))

\* C9: all concurrent tasks of one bulk execution are admitted through one
\* shared Rate Limiter: the wire requests the process sends in any window
\* of W ticks number at most N.
C9_ProcessWideRate ==
    \A s \in 0..now : RequestsIn(s, limW) <= limN

\* tasks inside `async with semaphore`
SlotHolders == {t \in DOMAIN bpc : bpc[t] \in Holding}

\* C10: at no time do more than maxWorkers tasks hold a worker slot, and a
\* slot is given back when its task ends, whether it succeeded or raised:
\* the free slots and the slots held always add up to maxWorkers.
C10_BoundedWorkers ==
    gatherState # "off" =>
        /\ Cardinality(SlotHolders) <= maxWorkers
        /\ permits + Cardinality(SlotHolders) = maxWorkers

\* C10 witness: more domains than slots; a task whose wire call raised has
\* ended and given the only slot back, and the task that was waiting for it
\* holds it now.
C10_Witness ==
    /\ maxWorkers = 1
    /\ \E t \in DOMAIN bpc :
          /\ bpc[t] = "raised"
          /\ wireLog[t] # <<>>
    /\ Cardinality(SlotHolders) = 1

\* C13: with continueOnError = false, once a task or a batch has failed
\* no further wire call is issued; with continueOnError = true every task
\* runs to completion and the full result is returned.
C13_StopsAfterFailure ==
    /\ ~continueOnError => ~lateCall
    /\ continueOnError =>
          /\ gatherState # "raised"
          /\ gatherState = "returned" =>
                \A t \in Domains : results[t].domain = t

\* C14: the failure of one task never cancels a sibling: no task that has
\* sent a wire request is cancelled, leaving no outcome of its own.
C14_NoSiblingCancelled ==
    \A t \in DOMAIN bpc : ~(bpc[t] = "cancelled" /\ wireLog[t] # <<>>)

\* C15: every bulk execution returns its summary: no exception raised inside
\* a task propagates out of the executor in place of the result.
C15_SummaryReturned ==
    gatherState # "raised"

\* C25: when the caller cancels a running bulk execution, every task that
\* is performing a wire call finishes that call and has its outcome
\* recorded: after the interruption every task that has sent a wire call
\* has its entry in the results.
C25_InFlightCallsFinish ==
    gatherState = "interrupted" =>
        \A t \in Domains : wireLog[t] # <<>> => results[t].domain = t

(***************************************************************************)
(* SpecApply: apply_deployment.  Its client is a SyncGoDaddyAPIClient      *)
(* (deploy.py:120), whose methods are the three of api_client.py:379-399.  *)
(***************************************************************************)
\* the public methods class SyncGoDaddyAPIClient defines
\* (api_client.py:379, 385, 393); it defines no __getattr__
SyncClientMethods == {"list_domains", "list_dns_records", "create_dns_record"}

\* client.<method>(...) on a SyncGoDaddyAPIClient raises AttributeError
NoSuchMethod(m) == m \notin SyncClientMethods

\* no backup file written
NoSnapshot == [taken |-> FALSE, records |-> <<>>]

\* the records of the spec's scenarios A and B
ApplyPool == {r \in RecordPool : r.type \in {"A", "CNAME"}}

ApplyStates == {s \in States : \A i \in 1..Len(s) : s[i] \in ApplyPool}

ApplyUnchanged(pcOnly) ==
    /\ UNCHANGED <<autoApprove, backupReq, desired, planPc>>
    /\ UNCHANGED nonApplyVars
    /\ pcOnly => UNCHANGED <<server, plan, snapshot, delIdx, applyLog, goAhead>>

\* a GET /domains/{domain}/records through client.list_dns_records
\* (api_client.py:385-391, 206-219)
ListRequest == [method |-> "GET", name |-> "", type |-> ""]

\* deploy.py:125-147 and 258-260: where apply goes after the backup: on,
\* or, when listing the records or writing the file raised, to the
\* handler that ends the command
AfterBackup_Continue(ok) == "plan"
AfterBackup(ok) == IF ok THEN "plan" ELSE "failed"

\* deploy.py:200-208: where apply goes after the answer to the confirmation
AfterConfirm_Ignore(yes) == "deleting"
AfterConfirm(yes) == IF yes THEN "deleting" ELSE "cancelled"

\* deploy.py:122-147: with --backup, the records are listed and written to
\* the backup file; a failure of either ends apply (deploy.py:258-260)
ApplyBackup ==
    /\ applyPc = "start"
    /\ backupReq
    /\ applyLog' = Append(applyLog, ListRequest)
    /\ \E ok \in BOOLEAN :
         /\ snapshot' = IF ok THEN [taken |-> TRUE,
                                   records |-> CurrentState(server)]
                         ELSE snapshot
         /\ applyPc' = AfterBackup(ok)
    /\ UNCHANGED <<server, plan, delIdx, goAhead>>
    /\ ApplyUnchanged(FALSE)

\* deploy.py:123: no --backup
ApplyNoBackup ==
    /\ applyPc = "start"
    /\ ~backupReq
    /\ applyPc' = "plan"
    /\ ApplyUnchanged(TRUE)

\* deploy.py:161-191: the records are listed, the plan is generated, and an
\* empty plan ends apply with 'No changes to apply'
ApplyPlan ==
    /\ applyPc = "plan"
    /\ applyLog' = Append(applyLog, ListRequest)
    /\ \E ok \in BOOLEAN :
         IF ok
         THEN /\ plan' = GeneratePlan(CurrentState(server), desired)
              /\ applyPc' = IF TotalChanges(plan') = 0 THEN "nochanges"
                            ELSE "confirm"
         ELSE /\ plan' = plan
              /\ applyPc' = "failed"
    /\ UNCHANGED <<server, snapshot, delIdx, goAhead>>
    /\ ApplyUnchanged(FALSE)

\* deploy.py:199-208: the confirmation, unless --auto-approve
ApplyConfirm ==
    /\ applyPc = "confirm"
    /\ IF autoApprove
       THEN /\ applyPc' = "deleting"
            /\ goAhead' = goAhead
       ELSE \E yes \in BOOLEAN :
              /\ applyPc' = AfterConfirm(yes)
              /\ goAhead' = IF yes THEN "yes" ELSE "no"
    /\ delIdx' = 1
    /\ UNCHANGED <<server, plan, snapshot, applyLog>>
    /\ ApplyUnchanged(FALSE)

\* deploy.py:211-219: one turn of the delete loop.  client.delete_dns_record
\* is no attribute of SyncGoDaddyAPIClient: the call raises AttributeError
\* before any request is sent, line 218 catches it and line 219 reports it
ApplyDelete ==
    /\ applyPc = "deleting"
    /\ delIdx <= Len(plan.delete)
    /\ NoSuchMethod("delete_dns_record")
    /\ delIdx' = delIdx + 1
    /\ UNCHANGED <<applyPc, server, plan, snapshot, applyLog, goAhead>>
    /\ ApplyUnchanged(FALSE)

\* deploy.py:221-222: the delete loop is over, creates and updates begin
ApplyDeletesOver ==
    /\ applyPc = "deleting"
    /\ delIdx > Len(plan.delete)
    /\ applyPc' = "creating"
    /\ ApplyUnchanged(TRUE)

\* deploy.py:222-239: the create and update records are collected; when
\* there are any, client.bulk_update_records is no attribute of
\* SyncGoDaddyAPIClient, the AttributeError reaches line 258 and apply ends
\* with 'Deployment failed'; when there are none, 'Deployment completed'
ApplyCreateUpdate ==
    /\ applyPc = "creating"
    /\ NoSuchMethod("bulk_update_records")
    /\ applyPc' = IF UpdateRecords(plan) # <<>> THEN "failed" ELSE "completed"
    /\ ApplyUnchanged(TRUE)

\* deploy.py:241-250 and 258-260: the verification prompt; deploy.py never
\* imports time, so time.sleep(5) raises NameError and apply ends with
\* 'Deployment failed'
ApplyVerify ==
    /\ applyPc = "completed"
    /\ \E yes \in BOOLEAN : applyPc' = IF yes THEN "failed" ELSE "done"
    /\ ApplyUnchanged(TRUE)

InitApply ==
    /\ server \in {RecordsData(s) : s \in ApplyStates}
    /\ desired \in ApplyStates
    /\ plan = [create |-> <<>>, update |-> <<>>, delete |-> <<>>]
    /\ planPc = "off"
    /\ applyPc = "start"
    /\ autoApprove \in BOOLEAN
    /\ backupReq \in BOOLEAN
    /\ snapshot = NoSnapshot
    /\ delIdx = 0
    /\ applyLog = <<>>
    /\ goAhead = "none"
    /\ RLOff
    /\ BulkOff
    /\ ReqOff
    /\ RbOff
    /\ CfgOff
    /\ DryOff

NextApply ==
    \/ ApplyBackup
    \/ ApplyNoBackup
    \/ ApplyPlan
    \/ ApplyConfirm
    \/ ApplyDelete
    \/ ApplyDeletesOver
    \/ ApplyCreateUpdate
    \/ ApplyVerify

SpecApply == InitApply /\ [][NextApply]_vars

\* a DELETE for the record of plan entry e has been sent
DeleteSent(e) ==
    \E i \in DOMAIN applyLog :
        /\ applyLog[i].method = "DELETE"
        /\ applyLog[i].name = e.name
        /\ applyLog[i].type = e.type

NoMutatingCall == \A i \in DOMAIN applyLog : applyLog[i].method = "GET"

\* apply has reached the code that deletes, creates and updates
\* (deploy.py:205-250)
Mutating == applyPc \in {"deleting", "creating", "completed", "done"}

\* C18: unless auto-approved, apply neither reaches its deletes, creates and
\* updates nor sends a mutating wire call before the go-ahead was given; when
\* the go-ahead is refused apply ends, having attempted no delete and sent
\* no mutating call.
C18_NoMutationWithoutGoAhead ==
    /\ (~autoApprove /\ goAhead # "yes") =>
          /\ ~Mutating
          /\ delIdx <= 1
          /\ NoMutatingCall
    /\ goAhead = "no" =>
          /\ applyPc = "cancelled"
          /\ delIdx <= 1
          /\ NoMutatingCall

\* C18 witness: a plan with a delete was shown, the go-ahead was refused
\* and apply has ended.
C18_Witness ==
    /\ ~autoApprove
    /\ goAhead = "no"
    /\ applyPc = "cancelled"
    /\ Len(plan.delete) > 0

\* C19: the backup snapshot is captured only after the plan has been
\* generated and confirmed: whenever a snapshot exists, a non-empty plan
\* exists and apply was auto-approved or given the go-ahead.
C19_BackupAfterConfirmation ==
    snapshot # NoSnapshot =>
        /\ TotalChanges(plan) > 0
        /\ autoApprove \/ goAhead = "yes"

\* C20: if a backup is requested and reading the records or saving the
\* snapshot fails, apply ends Failed with no plan made, no delete attempted
\* and no mutating wire call sent.
C20_BackupFailureIsFatal ==
    (backupReq /\ snapshot = NoSnapshot /\ applyPc # "start") =>
        /\ applyPc = "failed"
        /\ TotalChanges(plan) = 0
        /\ delIdx = 0
        /\ NoMutatingCall

\* C20 witness: the backup of a domain that has records failed and apply
\* has ended Failed after the one listing request.
C20_Witness ==
    /\ backupReq
    /\ snapshot = NoSnapshot
    /\ applyPc = "failed"
    /\ server # <<>>
    /\ applyLog = <<ListRequest>>

\* C30: apply reports 'Deployment completed' only if every delete of the
\* plan succeeded (and every create/update batch did): once apply has
\* reported completion, the DELETE of every delete entry of the plan has been
\* sent and accepted.
C30_CompletedOnlyIfAllSucceeded ==
    applyPc \in {"completed", "done"} =>
        \A i \in DOMAIN plan.delete : DeleteSent(plan.delete[i])

(***************************************************************************)
(* SpecRequest: one bulk call and the server's answers to its wire calls.  *)
(* GoDaddyAPIClient.bulk_update_records over GoDaddyAPIClient._request,    *)
(* APIClient.bulk_add_records over APIClient._request, and the delete loop *)
(* of _process_bulk_deletions over GoDaddyAPIClient.delete_dns_record.     *)
(***************************************************************************)
\* APIError(f"Network error: ...", 0) (api_client.py:185-186): the status a
\* failed connection is given
NetworkFailure == 0

\* the answers of the server: success, the client errors, the rate-limit
\* signal, the server errors, and no answer at all
Statuses == {200, 400, 401, 409, 429, 500, 503, NetworkFailure}

\* api_client.py:179-186: status >= 400 or aiohttp.ClientError raise
\* APIError; simple_api_client.py:99-113: status_code >= 400 or a requests
\* exception raise
IsError(st) == st >= 400 \/ st = NetworkFailure

\* records per wire call: batch_size for bulk_update_records
\* (api_client.py:271-272), one for bulk_add_records
\* (simple_api_client.py:199) and for delete_dns_record, whose request
\* names one (type, name) (bulk.py:552-553, api_client.py:249-250)
ReqStep == IF reqClient = "async" THEN reqBatch ELSE 1

\* the records of the wire call at index i: len(records[i:i + step])
ReqSize_Whole(i) == ReqStep
ReqSize(i) == Min(i + ReqStep, reqItems) - i

ReqUnchanged ==
    /\ UNCHANGED <<reqClient, reqItems, reqBatch>>
    /\ UNCHANGED nonReqVars

\* api_client.py:271-277 / simple_api_client.py:199-213: the loop has a next
\* batch, and _request sends it: one wire call (the client's own limiter,
\* api_client.py:169, admits it: the call has fewer batches than
\* max_requests)
ReqSend ==
    /\ reqPc = "ready"
    /\ InRange(reqI, reqItems, ReqStep)
    /\ reqPc' = "sent"
    /\ sent' = Append(sent, [from |-> reqI, size |-> ReqSize(reqI)])
    /\ UNCHANGED <<reqI, answers, reqRes>>
    /\ ReqUnchanged

\* api_client.py:177-186 and 278-281 / simple_api_client.py:96-115 and
\* 214-218: the answer st to the wire call in flight is counted, as success
\* or as failure with one error text; _request returns or raises at once.
\* The delete loop counts the deletes that returned True and nothing else
\* (bulk.py:553-555, api_client.py:251-253)
ReqAnswer(st) ==
    /\ reqPc = "sent"
    /\ answers' = Append(answers, st)
    /\ reqRes' = IF ~IsError(st)
                 THEN [reqRes EXCEPT !.success = @ + ReqSize(reqI)]
                 ELSE IF reqClient = "delete" THEN reqRes
                 ELSE [reqRes EXCEPT !.failed = @ + ReqSize(reqI),
                                     !.errors = @ + 1]
    /\ reqI' = reqI + ReqStep
    /\ reqPc' = "ready"
    /\ UNCHANGED sent
    /\ ReqUnchanged

\* api_client.py:283 / simple_api_client.py:220: return results
ReqReturn ==
    /\ reqPc = "ready"
    /\ ~InRange(reqI, reqItems, ReqStep)
    /\ reqPc' = "done"
    /\ UNCHANGED <<reqI, answers, reqRes, sent>>
    /\ ReqUnchanged

InitRequest ==
    /\ reqClient \in {"async", "simple", "delete"}
    /\ reqItems \in 0..MaxReqItems
    /\ reqBatch \in (IF reqClient = "async" THEN 1..MaxReqItems ELSE {1})
    /\ reqPc = "ready"
    /\ reqI = 0
    /\ answers = <<>>
    /\ reqRes = ZeroResult
    /\ sent = <<>>
    /\ RLOff
    /\ PlanOff
    /\ BulkOff
    /\ ApplyOff
    /\ RbOff
    /\ CfgOff
    /\ DryOff

NextRequest ==
    \/ ReqSend
    \/ \E st \in Statuses : ReqAnswer(st)
    \/ ReqReturn

SpecRequest == InitRequest /\ [][NextRequest]_vars

\* the batches of the call: ceil(len(records) / step)
ReqBatches == (reqItems + ReqStep - 1) \div ReqStep

\* C16: a wire call answered with the rate-limit signal (429) is retried
\* until it gets another answer; it is never counted as a failed item and
\* never surfaces as an error: a call whose answers were only 429 and 200
\* ends with no failed item and no error.
C16_RateLimitInvisible ==
    (/\ reqPc = "done"
     /\ \A i \in DOMAIN answers : answers[i] \in {200, 429})
    => (reqRes.failed = 0 /\ reqRes.errors = 0)

\* C17: a wire call that fails with a 5xx answer or a network error is
\* retried, and is reported as failed only when all attempts failed: a call
\* that reports a failed item after such answers has made more wire calls
\* than it has batches.
C17_TransientRetried ==
    (/\ reqPc = "done"
     /\ \A i \in DOMAIN answers : answers[i] \in {200, 500, 503, NetworkFailure}
     /\ reqRes.failed > 0)
    => Len(answers) > ReqBatches

(***************************************************************************)
(* SpecRollback: rollback_deployment through the SyncGoDaddyAPIClient it   *)
(* builds (deploy.py:301).  SpecRestore: the same command with             *)
(* client.delete_dns_record and client.bulk_update_records taken as the    *)
(* methods of GoDaddyAPIClient (api_client.py:246-253, 265-283), the only  *)
(* definitions of those names.                                             *)
(***************************************************************************)
\* batch_size=10 (deploy.py:317)
RollbackBatchSize == 10

\* one dict of backup_data['records'] (deploy.py:130-140)
BackupDict(r) ==
    [name |-> r.name, type |-> r.type, data |-> r.data, ttl |-> r.ttl,
     priority |-> r.priority, weight |-> r.weight, port |-> r.port]

\* records_to_restore (deploy.py:286-289)
RecordsToRestore == MapSeq(rbBackup, FromApiDict)

\* client.<method> raises AttributeError: the client is the
\* SyncGoDaddyAPIClient and the class does not define the method
RollbackRaises(m) == ~rbBound /\ NoSuchMethod(m)

\* one wire request of rollback
RbRequest(m, n, ty, b) == [method |-> m, name |-> n, type |-> ty, body |-> b]

\* the answers to a wire call: accepted; an error status or aiohttp
\* ClientError, which _request raises as APIError (api_client.py:179-186);
\* any other exception, such as asyncio.TimeoutError
WireOutcomes == {"ok", "apierror", "exc"}

RbUnchanged ==
    /\ UNCHANGED <<rbBound, rbAuto, rbBackup, desired, plan, planPc>>
    /\ UNCHANGED nonRbVars

\* deploy.py:295-298: the confirmation, unless --auto-approve
RollbackConfirm ==
    /\ rbPc = "start"
    /\ IF rbAuto
       THEN rbPc' = "list"
       ELSE \E yes \in BOOLEAN : rbPc' = IF yes THEN "list" ELSE "cancelled"
    /\ UNCHANGED <<server, rbListed, rbIdx, rbI, rbRes, rbWarnings, rbLog>>
    /\ RbUnchanged

\* deploy.py:305: current_records = client.list_dns_records(domain); an
\* exception ends the command at line 330-335
RollbackList ==
    /\ rbPc = "list"
    /\ rbLog' = Append(rbLog, RbRequest("GET", "", "", <<>>))
    /\ \E ok \in BOOLEAN :
         IF ok
         THEN /\ rbListed' = CurrentState(server)
              /\ rbIdx' = 1
              /\ rbPc' = "clearing"
         ELSE /\ rbPc' = "failed"
              /\ UNCHANGED <<rbListed, rbIdx>>
    /\ UNCHANGED <<server, rbI, rbRes, rbWarnings>>
    /\ RbUnchanged

\* deploy.py:307-311: one turn of the clearing loop.  On the
\* SyncGoDaddyAPIClient the call raises AttributeError before any request is
\* sent, and line 310-311 prints the warning.  As the method of
\* GoDaddyAPIClient it sends one DELETE for the record's (type, name) and
\* returns True, or False on APIError (api_client.py:246-253); line 309
\* drops the value; any other exception reaches line 310-311
RollbackDelete ==
    /\ rbPc = "clearing"
    /\ rbIdx <= Len(rbListed)
    /\ LET r == rbListed[rbIdx] IN
         IF RollbackRaises("delete_dns_record")
         THEN /\ rbWarnings' = Append(rbWarnings, KeyOf(r))
              /\ UNCHANGED <<server, rbLog>>
         ELSE /\ rbLog' = Append(rbLog, RbRequest("DELETE", r.name, r.type, <<>>))
              /\ \E o \in WireOutcomes :
                   /\ server' = IF o = "ok"
                                THEN ServerDelete(server, r.type, r.name)
                                ELSE server
                   /\ rbWarnings' = IF o = "exc"
                                    THEN Append(rbWarnings, KeyOf(r))
                                    ELSE rbWarnings
    /\ rbIdx' = rbIdx + 1
    /\ UNCHANGED <<rbPc, rbListed, rbI, rbRes>>
    /\ RbUnchanged

\* deploy.py:313-316: the clearing loop is over, the restore begins
RollbackClearOver ==
    /\ rbPc = "clearing"
    /\ rbIdx > Len(rbListed)
    /\ rbPc' = "restoring"
    /\ UNCHANGED <<server, rbListed, rbIdx, rbI, rbRes, rbWarnings, rbLog>>
    /\ RbUnchanged

\* deploy.py:317: results = client.bulk_update_records(domain,
\* records_to_restore, batch_size=10).  On the SyncGoDaddyAPIClient the call
\* raises AttributeError, which ends the command with 'Rollback failed'
\* (line 333-335).  As the method of GoDaddyAPIClient, one turn of its loop
\* (api_client.py:271-281): the batch is sent as one PATCH and counted as
\* success, or as failed on APIError; any other exception ends the command
RollbackRestore ==
    /\ rbPc = "restoring"
    /\ IF RollbackRaises("bulk_update_records")
       THEN /\ rbPc' = "failed"
            /\ UNCHANGED <<server, rbI, rbRes, rbLog>>
       ELSE /\ InRange(rbI, Len(RecordsToRestore), RollbackBatchSize)
            /\ LET batch == BatchOf(RecordsToRestore, rbI, RollbackBatchSize)
                   data == RecordsData(batch)
               IN  /\ rbLog' = Append(rbLog, RbRequest("PATCH", "", "", data))
                   /\ \E o \in WireOutcomes :
                        /\ server' = IF o = "ok" THEN ServerPatch(server, data)
                                     ELSE server
                        /\ rbRes' =
                             IF o = "ok"
                             THEN [rbRes EXCEPT !.success = @ + Len(batch)]
                             ELSE IF o = "apierror"
                             THEN [rbRes EXCEPT !.failed = @ + Len(batch),
                                                !.errors = @ + 1]
                             ELSE rbRes
                        /\ rbPc' = IF o = "exc" THEN "failed" ELSE rbPc
            /\ rbI' = rbI + RollbackBatchSize
    /\ UNCHANGED <<rbListed, rbIdx, rbWarnings>>
    /\ RbUnchanged

\* api_client.py:283 and deploy.py:320-325: bulk_update_records returns and
\* the outcome is reported: 'Rollback completed' when results['failed'] is
\* 0, 'Rollback completed with N failures' otherwise
RollbackReport ==
    /\ rbPc = "restoring"
    /\ ~RollbackRaises("bulk_update_records")
    /\ ~InRange(rbI, Len(RecordsToRestore), RollbackBatchSize)
    /\ rbPc' = IF rbRes.failed = 0 THEN "completed" ELSE "failures"
    /\ UNCHANGED <<server, rbListed, rbIdx, rbI, rbRes, rbWarnings, rbLog>>
    /\ RbUnchanged

\* a rollback about to begin: the backup file is loaded, the domain has
\* records of its own
RbStart(bound) ==
    /\ server \in {RecordsData(s) : s \in ApplyStates}
    /\ desired = <<>>
    /\ plan = [create |-> <<>>, update |-> <<>>, delete |-> <<>>]
    /\ planPc = "off"
    /\ rbPc = "start"
    /\ rbBound = bound
    /\ rbAuto \in BOOLEAN
    /\ rbBackup \in {MapSeq(s, BackupDict) : s \in ApplyStates}
    /\ rbListed = <<>>
    /\ rbIdx = 0
    /\ rbI = 0
    /\ rbRes = ZeroResult
    /\ rbWarnings = <<>>
    /\ rbLog = <<>>
    /\ RLOff
    /\ BulkOff
    /\ ApplyOff
    /\ ReqOff
    /\ CfgOff
    /\ DryOff

InitRollback == RbStart(FALSE)

NextRollback ==
    \/ RollbackConfirm
    \/ RollbackList
    \/ RollbackDelete
    \/ RollbackClearOver
    \/ RollbackRestore

SpecRollback == InitRollback /\ [][NextRollback]_vars

InitRestore == RbStart(TRUE)

NextRestore ==
    \/ RollbackConfirm
    \/ RollbackList
    \/ RollbackDelete
    \/ RollbackClearOver
    \/ RollbackRestore
    \/ RollbackReport

SpecRestore == InitRestore /\ [][NextRestore]_vars

\* a DELETE for record r has been sent
RbDeleteSent(r) ==
    \E i \in DOMAIN rbLog :
        /\ rbLog[i].method = "DELETE"
        /\ rbLog[i].name = r.name
        /\ rbLog[i].type = r.type

\* the PATCH requests of the log that carry the data of record r
RbRecreates(r) ==
    {i \in DOMAIN rbLog :
        /\ rbLog[i].method = "PATCH"
        /\ \E j \in DOMAIN rbLog[i].body : rbLog[i].body[j] = ToApiDict(r)}

\* the restore has been attempted: the clearing loop ran to its end
RbRestoreTried == rbIdx > Len(rbListed) /\ rbPc # "clearing"

\* C21: rollback first issues a delete for every record listed on the
\* domain, and only then issues the calls that recreate the records of the
\* snapshot: once the restore has begun a DELETE has been sent for every
\* listed record, and once rollback has ended past the restore every record
\* of the snapshot is in exactly one recreate call.
C21_DeletesThenRecreates ==
    RbRestoreTried =>
        /\ \A i \in DOMAIN rbListed : RbDeleteSent(rbListed[i])
        /\ rbPc # "restoring" =>
              \A i \in DOMAIN RecordsToRestore :
                  Cardinality(RbRecreates(RecordsToRestore[i])) = 1

\* the records of the snapshot that are not on the domain
RbNotRestored ==
    {i \in DOMAIN RecordsToRestore :
        \A j \in DOMAIN server : server[j] # ToApiDict(RecordsToRestore[i])}

\* C22: every record that rollback fails to delete or fails to recreate is
\* reported in the rollback outcome: when rollback has ended past the
\* restore, every listed record it did not delete has its 'Failed to delete'
\* line, and the failures it reports are as many as the records of the
\* snapshot that were not recreated.
C22_EveryFailureReported ==
    (RbRestoreTried /\ rbPc # "restoring") =>
        /\ \A i \in DOMAIN rbListed :
              ~RbDeleteSent(rbListed[i]) =>
                  \E k \in DOMAIN rbWarnings : rbWarnings[k] = KeyOf(rbListed[i])
        /\ rbRes.failed = Cardinality(RbNotRestored)

\* the set of the elements of a sequence
Range(s) == {s[i] : i \in DOMAIN s}

C23_ChunksCoverInOrder ==
    LET bs == IF reqClient = "async" THEN reqBatch ELSE 1 IN
    reqClient \in {"async", "delete"} =>
        /\ \A k \in DOMAIN sent :
              /\ sent[k].from = (k - 1) * bs
              /\ sent[k].size = Min(bs, reqItems - sent[k].from)
              /\ sent[k].size >= 1
        /\ reqClient = "delete" => \A k \in DOMAIN sent : sent[k].size = 1
        /\ reqPc = "done" => Len(sent) = (reqItems + bs - 1) \div bs

\* C23 witness: a list that its batch size does not divide has been sent
\* whole, its last chunk shorter than the others.
C23_Witness ==
    /\ reqClient = "async"
    /\ reqPc = "done"
    /\ reqBatch > 1
    /\ reqItems % reqBatch # 0
    /\ Len(sent) > 1

(***************************************************************************)
(* SpecConfig: one ConfigManager, its profiles and its config file.        *)
(***************************************************************************)
\* the profile names the operations are called with
ProfileNames == {"default", "test", "prod"}

\* default_ttl: int = 3600 (config.py:26)
ProfileDefaultTTL == 3600

\* a ProfileConfig is told from another by its default_ttl
ProfileTTLs == {ProfileDefaultTTL, 7200}

\* the dicts {name: ProfileConfig}
ProfileMaps == UNION {[S -> ProfileTTLs] : S \in SUBSET ProfileNames}

\* a config file: absent, unreadable, or holding the profiles it was saved
\* with
ConfigFiles ==
    {[state |-> st, profiles |-> <<>>] : st \in {"missing", "corrupt"}}
    \cup {[state |-> "ok", profiles |-> m] : m \in ProfileMaps}

\* self._profiles[name] = config
PutProfile(m, n, v) ==
    [x \in DOMAIN m \cup {n} |-> IF x = n THEN v ELSE m[x]]

\* del self._profiles[name]
DelProfile(m, n) == [x \in DOMAIN m \ {n} |-> m[x]]

\* for name, data in profiles_data.items(): self._profiles[name] = profile
\* (config.py:103-108, 255-264)
MergeProfiles(m, f) ==
    [x \in DOMAIN m \cup DOMAIN f |-> IF x \in DOMAIN f THEN f[x] ELSE m[x]]

\* config.py:110-112
EnsureDefault(m) ==
    IF "default" \in DOMAIN m THEN m
    ELSE PutProfile(m, "default", ProfileDefaultTTL)

\* load (config.py:78-98) on profiles m and file f: a readable file is
\* merged in and the default profile ensured; otherwise
\* _create_default_config sets the default profile (config.py:130)
LoadProfiles(m, f) ==
    IF f.state = "ok" THEN EnsureDefault(MergeProfiles(m, f.profiles))
    ELSE PutProfile(m, "default", ProfileDefaultTTL)

\* the file save() writes (config.py:137-156)
SavedFile(m) == [state |-> "ok", profiles |-> m]

\* config.py:177-178: delete_profile refuses the name
DeleteRefused_Never(n) == FALSE
DeleteRefused(n) == n = "default"

Op(o, n, r) == [op |-> o, name |-> n, raised |-> r]

\* load() (config.py:78-98); save() of _create_default_config may raise
ConfigLoad ==
    /\ profiles' = LoadProfiles(profiles, configFile)
    /\ IF configFile.state = "ok"
       THEN /\ configFile' = configFile
            /\ lastOp' = Op("load", "", FALSE)
       ELSE \E saved \in BOOLEAN :
              /\ configFile' = IF saved THEN SavedFile(profiles') ELSE configFile
              /\ lastOp' = Op("load", "", ~saved)
    /\ before' = <<>>
    /\ UNCHANGED nonCfgVars

\* get_profile(name) (config.py:162-168): a missing profile is created
GetProfile(n) ==
    /\ profiles' = IF n \in DOMAIN profiles THEN profiles
                   ELSE PutProfile(profiles, n, ProfileDefaultTTL)
    /\ lastOp' = Op("get", n, FALSE)
    /\ before' = <<>>
    /\ UNCHANGED configFile
    /\ UNCHANGED nonCfgVars

\* set_profile(name, config) (config.py:170-173)
SetProfile(n, v) ==
    /\ profiles' = PutProfile(profiles, n, v)
    /\ \E saved \in BOOLEAN :
         /\ configFile' = IF saved THEN SavedFile(profiles') ELSE configFile
         /\ lastOp' = Op("set", n, ~saved)
    /\ before' = <<>>
    /\ UNCHANGED nonCfgVars

\* delete_profile(name) (config.py:175-185)
DeleteProfile(n) ==
    /\ before' = profiles
    /\ IF DeleteRefused(n)
       THEN /\ lastOp' = Op("delete", n, TRUE)
            /\ UNCHANGED <<profiles, configFile>>
       ELSE IF n \in DOMAIN profiles
       THEN /\ profiles' = DelProfile(profiles, n)
            /\ \E saved \in BOOLEAN :
                 /\ configFile' = IF saved THEN SavedFile(profiles')
                                  ELSE configFile
                 /\ lastOp' = Op("delete", n, ~saved)
       ELSE /\ lastOp' = Op("delete", n, FALSE)
            /\ UNCHANGED <<profiles, configFile>>
    /\ UNCHANGED nonCfgVars

\* import_config(input_path, merge) (config.py:242-266) of file f; merge
\* decides how self._config is replaced and nothing about self._profiles;
\* a file that is no mapping raises before a profile is touched
ImportConfig(f) ==
    /\ f.state # "missing"
    /\ IF f.state = "ok"
       THEN /\ profiles' = MergeProfiles(profiles, f.profiles)
            /\ \E saved \in BOOLEAN :
                 /\ configFile' = IF saved THEN SavedFile(profiles')
                                  ELSE configFile
                 /\ lastOp' = Op("import", "", ~saved)
       ELSE /\ lastOp' = Op("import", "", TRUE)
            /\ UNCHANGED <<profiles, configFile>>
    /\ before' = <<>>
    /\ UNCHANGED nonCfgVars

\* the config file is edited, removed or damaged outside the program
FileEdited(f) ==
    /\ configFile' = f
    /\ lastOp' = Op("edit", "", FALSE)
    /\ before' = <<>>
    /\ UNCHANGED profiles
    /\ UNCHANGED nonCfgVars

\* ConfigManager.__init__ (config.py:55-62) over any config file
InitConfig ==
    /\ \E f \in ConfigFiles :
         /\ profiles = LoadProfiles(<<>>, f)
         /\ configFile = IF f.state = "ok" THEN f ELSE SavedFile(profiles)
    /\ lastOp = Op("init", "", FALSE)
    /\ before = <<>>
    /\ RLOff
    /\ PlanOff
    /\ BulkOff
    /\ ApplyOff
    /\ ReqOff
    /\ RbOff
    /\ DryOff

NextConfig ==
    \/ ConfigLoad
    \/ \E n \in ProfileNames : GetProfile(n)
    \/ \E n \in ProfileNames, v \in ProfileTTLs : SetProfile(n, v)
    \/ \E n \in ProfileNames : DeleteProfile(n)
    \/ \E f \in ConfigFiles : ImportConfig(f)
    \/ \E f \in ConfigFiles : FileEdited(f)

SpecConfig == InitConfig /\ [][NextConfig]_vars

\* C27: after any sequence of ConfigManager operations a profile named
\* 'default' exists; delete_profile('default') raises and leaves the
\* profiles as they were; deleting any other existing profile removes
\* that profile and no other, and changes none.
C27_DefaultProfileKept ==
    /\ "default" \in DOMAIN profiles
    /\ (lastOp.op = "delete" /\ lastOp.name = "default") =>
          /\ lastOp.raised
          /\ profiles = before
    /\ (lastOp.op = "delete" /\ lastOp.name # "default"
            /\ lastOp.name \in DOMAIN before) =>
          /\ DOMAIN profiles = DOMAIN before \ {lastOp.name}
          /\ \A x \in DOMAIN profiles : profiles[x] = before[x]

\* C27 witness: delete_profile('default') was called on a manager that holds
\* two other profiles besides, and raised.
C27_Witness ==
    /\ lastOp = Op("delete", "default", TRUE)
    /\ DOMAIN profiles = ProfileNames
    /\ profiles["test"] # profiles["prod"]

(***************************************************************************)
(* SpecDry: the bulk commands import-records, update-records and           *)
(* delete-records, with and without --dry-run.  Every domain has its task  *)
(* and its GoDaddyAPIClient; --max-workers (default 5) exceeds the domains *)
(* of the model, and --batch-size (default 50) the records of a domain.    *)
(***************************************************************************)
\* the domains of the command line (bulk.py:216)
CmdDomains == {"example.com", "test.com"}

\* --record-type, --old-data and --new-data of update-records
UpdateType == "A"
OldData == "1.1.1.1"
NewData == "1.1.1.2"

\* the records a domain holds when the command begins
DryPool ==
    { Rec("www", "A", OldData, DefaultTTL, None, None, None),
      Rec("api", "A", "2.2.2.2", DefaultTTL, None, None, None) }

DryStates == {s \in States : \A i \in 1..Len(s) : s[i] \in DryPool}

\* the records of the input file for one domain (bulk.py:77-106)
ImportLists == {<<>>, <<Rec("www", "A", NewData, DefaultTTL, None, None, None)>>}

\* bulk.py:120, 492, 551: the command goes on to its mutating calls
Mutates_Always(dry) == TRUE
Mutates(dry) == ~dry

\* bulk.py:478-490: the records of the listing whose data is old_data, with
\* new_data in its place (new_ttl is not given)
Updates(srv) ==
    MapSeq(SelectSeq(CurrentState(SelectSeq(srv, LAMBDA d : d.type = UpdateType)),
                     LAMBDA r : r.data = OldData),
           LAMBDA r : Rec(r.name, r.type, NewData, r.ttl, r.priority,
                          None, None))

DryUnchanged ==
    /\ UNCHANGED <<cmd, dryRun, store0>>
    /\ UNCHANGED nonDryVars

\* bulk.py:120-125 (import: a dry run returns before asyncio.run),
\* bulk.py:232-244 (update), bulk.py:280-295 (delete: the confirmation,
\* unless --dry-run)
CommandStart ==
    /\ cmdPc = "start"
    /\ IF cmd = "import"
       THEN cmdPc' = IF Mutates(dryRun) THEN "run" ELSE "preview"
       ELSE IF cmd = "delete" /\ ~dryRun
       THEN \E yes \in BOOLEAN : cmdPc' = IF yes THEN "run" ELSE "declined"
       ELSE cmdPc' = "run"
    /\ UNCHANGED <<taskPc, store, todo, cmdLog>>
    /\ DryUnchanged

\* the task of domain d begins.  bulk.py:402-406: the import task goes
\* straight to bulk_update_records.  bulk.py:474-490 and 532-547: the update
\* and delete tasks list the domain's records; when the listing fails the
\* task ends with an error entry (bulk.py:503-510, 564-571)
DomainBegin(d) ==
    /\ cmdPc = "run"
    /\ taskPc[d] = "pending"
    /\ IF cmd = "import"
       THEN /\ taskPc' = [taskPc EXCEPT ![d] = "work"]
            /\ UNCHANGED <<todo, cmdLog>>
       ELSE /\ cmdLog' = [cmdLog EXCEPT ![d] = Append(@, "GET")]
            /\ \E ok \in BOOLEAN :
                 IF ok
                 THEN /\ todo' = [todo EXCEPT ![d] =
                                     IF cmd = "update" THEN Updates(store[d])
                                     ELSE CurrentState(store[d])]
                      /\ taskPc' = [taskPc EXCEPT ![d] = "work"]
                 ELSE /\ taskPc' = [taskPc EXCEPT ![d] = "done"]
                      /\ UNCHANGED todo
    /\ UNCHANGED <<cmdPc, store>>
    /\ DryUnchanged

\* one mutating wire call of domain d's task.  Import: the PATCH of the
\* batch (api_client.py:272-277).  Update: the PUT of one record
\* (bulk.py:492-494, api_client.py:236-244).  Delete: the DELETE of one
\* record (bulk.py:551-555, api_client.py:246-253).  A refused call changes
\* nothing and the loop goes on
DomainMutate(d) ==
    /\ taskPc[d] = "work"
    /\ todo[d] # <<>>
    /\ cmd = "import" \/ Mutates(dryRun)
    /\ LET r == Head(todo[d]) IN
       \E ok \in BOOLEAN :
         IF cmd = "import"
         THEN /\ cmdLog' = [cmdLog EXCEPT ![d] = Append(@, "PATCH")]
              /\ store' = [store EXCEPT ![d] =
                              IF ok THEN ServerPatch(@, RecordsData(todo[d]))
                              ELSE @]
              /\ todo' = [todo EXCEPT ![d] = <<>>]
         ELSE IF cmd = "update"
         THEN /\ cmdLog' = [cmdLog EXCEPT ![d] = Append(@, "PUT")]
              /\ store' = [store EXCEPT ![d] =
                              IF ok THEN ServerPut(@, ToApiDict(r)) ELSE @]
              /\ todo' = [todo EXCEPT ![d] = Tail(@)]
         ELSE /\ cmdLog' = [cmdLog EXCEPT ![d] = Append(@, "DELETE")]
              /\ store' = [store EXCEPT ![d] =
                              IF ok THEN ServerDelete(@, r.type, r.name) ELSE @]
              /\ todo' = [todo EXCEPT ![d] = Tail(@)]
    /\ UNCHANGED <<cmdPc, taskPc>>
    /\ DryUnchanged

\* bulk.py:407-409, 496-501, 557-562: the task has no mutating call left,
\* or makes none in a dry run, and appends its result
DomainDone(d) ==
    /\ taskPc[d] = "work"
    /\ todo[d] = <<>> \/ (cmd # "import" /\ ~Mutates(dryRun))
    /\ taskPc' = [taskPc EXCEPT ![d] = "done"]
    /\ UNCHANGED <<cmdPc, store, todo, cmdLog>>
    /\ DryUnchanged

\* bulk.py:134-135, 246-247, 297-298: every task has ended and the results
\* are shown
CommandReturn ==
    /\ cmdPc = "run"
    /\ \A d \in CmdDomains : taskPc[d] = "done"
    /\ cmdPc' = "shown"
    /\ UNCHANGED <<taskPc, store, todo, cmdLog>>
    /\ DryUnchanged

InitDry ==
    /\ cmd \in {"import", "update", "delete"}
    /\ dryRun \in BOOLEAN
    /\ cmdPc = "start"
    /\ taskPc = [d \in CmdDomains |-> "pending"]
    /\ store \in [CmdDomains -> {RecordsData(s) : s \in DryStates}]
    /\ store0 = store
    /\ todo \in (IF cmd = "import" THEN [CmdDomains -> ImportLists]
                 ELSE {[d \in CmdDomains |-> <<>>]})
    /\ cmdLog = [d \in CmdDomains |-> <<>>]
    /\ RLOff
    /\ PlanOff
    /\ BulkOff
    /\ ApplyOff
    /\ ReqOff
    /\ RbOff
    /\ CfgOff

NextDry ==
    \/ CommandStart
    \/ \E d \in CmdDomains : DomainBegin(d)
    \/ \E d \in CmdDomains : DomainMutate(d)
    \/ \E d \in CmdDomains : DomainDone(d)
    \/ CommandReturn

SpecDry == InitDry /\ [][NextDry]_vars

\* C26: with --dry-run the bulk import, update and delete issue no mutating
\* wire call for any input: every request they send is a GET, and the
\* records of every domain are what they were when the command began.
C26_DryRunChangesNothing ==
    dryRun =>
        /\ \A d \in CmdDomains :
              \A i \in DOMAIN cmdLog[d] : cmdLog[d][i] = "GET"
        /\ store = store0

\* C26 witness: a dry run of delete-records has listed records it would
\* delete on every domain, and has shown its results.
C26_Witness ==
    /\ dryRun
    /\ cmd = "delete"
    /\ cmdPc = "shown"
    /\ \A d \in CmdDomains : todo[d] # <<>>

=============================================================================
